---- MODULE Spec2Model ----
(***************************************************************************)
(* Model of validation/roundtrip.py: the loop that samples a profile from  *)
(* the store, resolves its grid cell in the upstream netcdf files, and     *)
(* compares stored vectors and static fields against the grid.             *)
(*                                                                         *)
(* Numbers are integers in units of numpy's default absolute tolerance     *)
(* (1e-8); the relative tolerance 1e-5 is the fraction 1/RTOL_DEN.         *)
(* Python indices are 0-based: At(s, i) reads element i of a list.         *)
(* The log message is kept as the sequence of its newline-terminated       *)
(* lines; every line is non-empty, so comparing line counts decides        *)
(* len(logmessage) > loglen exactly as comparing character counts does.    *)
(***************************************************************************)
EXTENDS Integers, Sequences, FiniteSets, TLC

\* ------------------------------------------------------------------ bounds
MaxLen == 3

\* --------------------------------------------------------------- constants
NaN == -1000000
ATOL == 1
RTOL_DEN == 100000

\* ----------------------------------------------------------------- helpers
At(s, i) == s[i + 1]

Contains(list, x) == \E i \in 1..Len(list) : list[i] = x

\* list.index(x): position of the first element equal to x (ValueError when
\* absent; callers test Contains first).
IndexOf(list, x) ==
  (CHOOSE i \in 1..Len(list) : list[i] = x /\ \A j \in 1..(i - 1) : list[j] # x) - 1

Abs(x) == IF x < 0 THEN 0 - x ELSE x

\* numpy.isclose(a, b, equal_nan=True) on scalars:
\* |a - b| <= atol + rtol * |b|, NaN close to NaN only.
IsClose(a, b) ==
  IF a = NaN \/ b = NaN
    THEN a = NaN /\ b = NaN
    ELSE RTOL_DEN * Abs(a - b) <= RTOL_DEN * ATOL + Abs(b)

\* numpy broadcasting of two 1-d shapes: equal, or one of them is 1.
Broadcastable(a, b) == Len(a) = Len(b) \/ Len(a) = 1 \/ Len(b) = 1

BroadcastLen(a, b) ==
  IF Len(a) = Len(b) THEN Len(a) ELSE IF Len(a) = 1 THEN Len(b) ELSE Len(a)

Bc(a, n) == IF Len(a) = 1 THEN [q \in 1..n |-> a[1]] ELSE a

AllCloseNoNaN(a, b) ==
  LET n == BroadcastLen(a, b)
      x == Bc(a, n)
      y == Bc(b, n)
  IN \A q \in 1..n : x[q] # NaN /\ y[q] # NaN /\ IsClose(x[q], y[q])

\* numpy.allclose(a, b, equal_nan=True) for broadcastable a, b (it raises
\* ValueError otherwise): every position is close; true of an empty result.
AllClose(a, b) ==
  LET n == BroadcastLen(a, b)
      x == Bc(a, n)
      y == Bc(b, n)
  IN \A q \in 1..n : IsClose(x[q], y[q])

\* a != b on scalars (NaN differs from everything, itself included).
Differs(a, b) == a = NaN \/ b = NaN \/ a # b

Line(text, id) == <<text, id>>

\* --------------------------------------------- the upstream netcdf files
\* Axes XC, YC, Z of the grid, and the static fields shared by the files.
XC == <<0, 120, 240>>
YC == <<-60, -30>>
Z == <<-5, -15>>

BaseStatics ==
  [ rA      |-> << <<100, 110, 120>>, <<200, 210, 220>> >>,
    Depth   |-> << <<5000, 5100, 0>>, <<4000, 4100, 4200>> >>,
    maskInC |-> << <<1, 1, 0>>, <<1, 1, 1>> >>,
    rSurfC  |-> << <<0, 0, 0>>, <<0, 0, 0>> >>,
    rLowC   |-> << <<-5000, -5100, 0>>, <<-4000, -4100, -4200>> >>,
    drF     |-> <<10, 20>>,
    hFacC   |-> << << <<100, 100, 0>>, <<100, 100, 100>> >>,
                   << <<100, 50, 0>>, <<100, 100, 100>> >> >>,
    maskC   |-> << << <<1, 1, 0>>, <<1, 1, 1>> >>,
                   << <<1, 1, 0>>, <<1, 1, 1>> >> >>,
    rhoRef  |-> <<1000, 1010>> ]

Land(k, j, i) == BaseStatics.maskC[k][j][i] = 0

\* THETA[t][k][j][i] of the 2013 file (two time steps) and the 2014 file
\* (one time step); land cells and one missing sample hold NaN.
Theta13Var ==
  [t \in 1..2 |-> [k \in 1..2 |-> [j \in 1..2 |-> [i \in 1..3 |->
     IF Land(k, j, i) \/ (t = 2 /\ i = 1) THEN NaN
     ELSE 10 * t + 100 * (k - 1) + 1000 * (j - 1) + 3 * (i - 1)]]]]

Theta14Var ==
  [t \in 1..1 |-> [k \in 1..2 |-> [j \in 1..2 |-> [i \in 1..3 |->
     IF Land(k, j, i) THEN NaN
     ELSE 30 + 100 * (k - 1) + 1000 * (j - 1) + 3 * (i - 1)]]]]

Salt13Var ==
  [t \in 1..1 |-> [k \in 1..2 |-> [j \in 1..2 |-> [i \in 1..3 |->
     IF Land(k, j, i) THEN NaN
     ELSE 400000 + 100 * (k - 1) + 1000 * (j - 1) + 20 * (i - 1)]]]]

Salt14Var ==
  [t \in 1..1 |-> [k \in 1..2 |-> [j \in 1..2 |-> [i \in 1..3 |->
     IF Land(k, j, i) THEN NaN
     ELSE 400003 + 100 * (k - 1) + 1000 * (j - 1) + 20 * (i - 1)]]]]

\* The four datasets.  The 2014 and the salt files were written with static
\* fields that differ from the 2013 theta file at the first cell.
theta13 == [static |-> BaseStatics, var |-> Theta13Var]

theta14 ==
  [static |-> [BaseStatics EXCEPT !.Depth[1][1] = 5005, !.rhoRef[1] = 1005],
   var |-> Theta14Var]

salt13 ==
  [static |-> [BaseStatics EXCEPT !.maskInC[1][1] = 0, !.rhoRef[1] = 1005],
   var |-> Salt13Var]

salt14 ==
  [static |-> [BaseStatics EXCEPT !.maskInC[1][1] = 0, !.rhoRef[1] = 1005,
                                  !.drF[1] = 15],
   var |-> Salt14Var]

longitudes == XC
latitudes == YC
levels == Z

\* for f in [theta13, theta14, salt13, salt14]
Files == <<theta13, theta14, salt13, salt14>>

\* f[var][:, levelidx, latidx, lonidx].values as a list
PointSeries(fl, levelidx, latidx, lonidx) ==
  [t \in 1..Len(fl.var) |-> At(At(At(fl.var[t], levelidx), latidx), lonidx)]

\* ------------------------------------------------ the store (db = client.argo)
\* Documents of db.timeseriesMeta and db.bsose.  Identifiers are tuples of
\* integers, unique within a collection.
MetaDoc(area, depth, mask, rsurf, rlow) ==
  [ _id |-> <<area, depth, mask, rsurf, rlow>>,
    cell_area |-> area,
    ocean_depth |-> depth,
    interior_2d_mask |-> mask,
    depth_r0_to_ref_surface |-> rsurf,
    depth_r0_to_bottom |-> rlow ]

ProfileDoc(id, metaid, lon, lat, level, names, vectors, zsize, vfrac, mask, rho) ==
  [ _id |-> id,
    metadata |-> <<metaid>>,
    geolocation |-> [coordinates |-> <<lon, lat>>],
    level |-> level,
    data_info |-> <<names>>,
    data |-> vectors,
    cell_z_size |-> zsize,
    cell_vertical_fraction |-> vfrac,
    sea_binary_mask_at_t_locaiton |-> mask,
    reference_density_profile |-> rho ]

\* What ingestion from the 2013 theta file stores for grid cell (k, j, i)
\* (1-based positions in Z, YC, XC).
IngestedMeta(j, i) ==
  MetaDoc(BaseStatics.rA[j][i], BaseStatics.Depth[j][i], BaseStatics.maskInC[j][i],
          BaseStatics.rSurfC[j][i], BaseStatics.rLowC[j][i])

IngestedTheta(k, j, i) ==
  <<Theta13Var[1][k][j][i], Theta13Var[2][k][j][i], Theta14Var[1][k][j][i]>>

IngestedSalt(k, j, i) == <<Salt13Var[1][k][j][i], Salt14Var[1][k][j][i]>>

Ingested(id, lon, lat, level, k, j, i) ==
  ProfileDoc(id, IngestedMeta(j, i)._id, lon, lat, level,
             <<"THETA", "SALT">>, <<IngestedTheta(k, j, i), IngestedSalt(k, j, i)>>,
             BaseStatics.drF[k], BaseStatics.hFacC[k][j][i],
             BaseStatics.maskC[k][j][i], BaseStatics.rhoRef[k])

SeqsUpTo(S, n) == UNION {[1..len -> S] : len \in 0..n}

\* Longitudes are stored in the [0,360) or in the [-180,180) convention.
LonForms(x) == IF x >= 180 THEN {x, x - 360} ELSE {x}

\* Profiles on every grid cell, in both longitude conventions.
GridProfiles ==
  { Ingested(<<1, lon, YC[j], 0 - Z[k]>>, lon, YC[j], 0 - Z[k], k, j, i) :
      <<k, j, i, lon>> \in { c \in (1..2) \X (1..2) \X (1..3) \X {0, 120, 240, -120} :
                              c[4] \in LonForms(XC[c[3]]) } }

\* Profiles whose longitude, latitude or level is not a grid node.
OffGridProfiles ==
  { Ingested(<<2, c[1], c[2], c[3]>>, c[1], c[2], c[3], 1, 1, 1) :
      c \in {<<90, -60, 5>>, <<0, -45, 5>>, <<0, -60, 25>>, <<90, -45, 25>>, <<0, -60, -5>>} }

\* A profile whose metadata document is not in db.timeseriesMeta.
OrphanProfiles ==
  { [Ingested(<<3>>, 0, -60, 5, 1, 1, 1) EXCEPT !.metadata = <<<<-1, -1, -1, -1, -1>>>>] }

ThetaVals == {10, 11, 30, NaN}
SaltVals == {400000, 400003, 400010}

\* Profiles on the first cell with every stored THETA vector up to MaxLen,
\* and with every stored SALT vector next to a right and a wrong THETA.
ThetaProfiles ==
  { [Ingested(<<4>> \o th, 0, -60, 5, 1, 1, 1) EXCEPT !.data = <<th, IngestedSalt(1, 1, 1)>>] :
      th \in SeqsUpTo(ThetaVals, MaxLen) }

SaltProfiles ==
  { [Ingested(<<5>> \o th \o <<0>> \o sa, 0, -60, 5, 1, 1, 1) EXCEPT !.data = <<th, sa>>] :
      <<th, sa>> \in {IngestedTheta(1, 1, 1), <<30, NaN, 10>>} \X SeqsUpTo(SaltVals, MaxLen) }

\* Profiles that name their variables in another order, or not at all.
LayoutProfiles ==
  { [Ingested(<<6, n>>, 0, -60, 5, 1, 1, 1) EXCEPT
        !.data_info = << CASE n = 1 -> <<"SALT", "THETA">>
                           [] n = 2 -> <<"THETA">>
                           [] n = 3 -> <<"SALT">>
                           [] n = 4 -> <<>>
                           [] n = 5 -> <<"PRES", "SALT", "THETA">> >>,
        !.data = CASE n = 1 -> <<IngestedSalt(1, 1, 1), IngestedTheta(1, 1, 1)>>
                   [] n = 2 -> <<IngestedTheta(1, 1, 1)>>
                   [] n = 3 -> <<IngestedSalt(1, 1, 1)>>
                   [] n = 4 -> <<>>
                   [] n = 5 -> <<<<7>>, IngestedSalt(1, 1, 1), IngestedTheta(1, 1, 1)>> ] :
      n \in 1..5 }

\* Profiles on the first cell with every combination of stored level fields.
StaticProfiles ==
  { [Ingested(<<7, c[1], c[2], c[3], c[4]>>, 0, -60, 5, 1, 1, 1) EXCEPT
        !.cell_z_size = c[1], !.cell_vertical_fraction = c[2],
        !.sea_binary_mask_at_t_locaiton = c[3], !.reference_density_profile = c[4]] :
      c \in {10, 11, 15} \X {100, 101} \X {0, 1} \X {1000, 1001, 1005} }

\* Metadata documents: the ingested ones and every variation on the first cell.
VariedMetas ==
  { MetaDoc(c[1], c[2], c[3], c[4], c[5]) :
      c \in {100, 101} \X {5000, 5001, 5005, NaN} \X {0, 1} \X {0, 1} \X {-5000, -4999} }

MetaProfiles ==
  { [Ingested(<<8>> \o md._id, 0, -60, 5, 1, 1, 1) EXCEPT !.metadata = <<md._id>>] :
      md \in VariedMetas }

Database ==
  [ bsose |-> GridProfiles \cup OffGridProfiles \cup OrphanProfiles \cup ThetaProfiles
              \cup SaltProfiles \cup LayoutProfiles \cup StaticProfiles \cup MetaProfiles,
    timeseriesMeta |-> VariedMetas \cup {IngestedMeta(j, i) : <<j, i>> \in (1..2) \X (1..3)} ]

\* ------------------------------------------------------------------- state
VARIABLES
  db,                \* the store's collections (read only)
  pc,                \* position in the loop body, or "terminated"
  exc,               \* the exception that ended the process, "" if none
  logmessage, loglen,
  p, m,
  lat, lon, level,
  theta_idx, salt_idx, theta, salt,
  lonidx, latidx, levelidx,
  theta_timeseries, salt_timeseries,
  f,                 \* position of the static-check loop in Files (0-based)
  printed            \* what the current pass has written to stdout

vars == <<db, pc, exc, logmessage, loglen, p, m, lat, lon, level, theta_idx, salt_idx,
          theta, salt, lonidx, latidx, levelidx, theta_timeseries, salt_timeseries,
          f, printed>>

NoDoc == [_id |-> <<>>]

\* Module level code has run (connections and files open, axes read); the
\* loop has not started, so its names are not bound yet.
Init ==
  /\ db = Database
  /\ pc = "select"
  /\ exc = ""
  /\ logmessage = <<>>
  /\ loglen = 0
  /\ p = NoDoc /\ m = NoDoc
  /\ lat = 0 /\ lon = 0 /\ level = 0
  /\ theta_idx = -1 /\ salt_idx = -1
  /\ theta = <<>> /\ salt = <<>>
  /\ lonidx = 0 /\ latidx = 0 /\ levelidx = 0
  /\ theta_timeseries = <<>> /\ salt_timeseries = <<>>
  /\ f = 0
  /\ printed = <<>>

\* -------------------------------------------------------------- operations
Header(doc) == Line("Checking profile id ", doc._id)

\* list(db.timeseriesMeta.find({"_id": p['metadata'][0]}))
FindMeta(doc) == {r \in db.timeseriesMeta : r._id = doc.metadata[1]}

SelectKeepingLog(doc) ==
  /\ FindMeta(doc) # {}
  /\ logmessage' = logmessage \o <<Header(doc)>>
  /\ p' = doc
  /\ m' = CHOOSE r \in FindMeta(doc) : TRUE
  /\ loglen' = Len(logmessage')
  /\ printed' = <<>>
  /\ pc' = "extract"

\* Lines 18-25 with a profile whose metadata document exists.
SelectFound(doc) ==
  /\ FindMeta(doc) # {}
  /\ logmessage' = <<Header(doc)>>
  /\ p' = doc
  /\ m' = CHOOSE r \in FindMeta(doc) : TRUE
  /\ loglen' = Len(logmessage')
  /\ printed' = <<>>
  /\ pc' = "extract"

Select ==
  /\ pc = "select"
  /\ \E doc \in db.bsose : SelectFound(doc)
  /\ UNCHANGED <<db, exc, lat, lon, level, theta_idx, salt_idx, theta, salt, lonidx,
                 latidx, levelidx, theta_timeseries, salt_timeseries, f>>

\* Line 23 when the lookup returns no document: list(...)[0] raises IndexError.
SelectNoMetadata ==
  /\ pc = "select"
  /\ \E doc \in db.bsose :
       /\ FindMeta(doc) = {}
       /\ logmessage' = <<>>
       /\ p' = doc
  /\ printed' = <<>>
  /\ pc' = "terminated"
  /\ exc' = "IndexError"
  /\ UNCHANGED <<db, loglen, m, lat, lon, level, theta_idx, salt_idx, theta, salt, lonidx,
                 latidx, levelidx, theta_timeseries, salt_timeseries, f>>

\* Line 21 when the store cannot be reached: the driver's error propagates.
SelectUnavailable ==
  /\ pc = "select"
  /\ logmessage' = <<>>
  /\ printed' = <<>>
  /\ pc' = "terminated"
  /\ exc' = "SourceUnavailable"
  /\ UNCHANGED <<db, loglen, p, m, lat, lon, level, theta_idx, salt_idx, theta, salt, lonidx,
                 latidx, levelidx, theta_timeseries, salt_timeseries, f>>

\* try: names.index(name) except ValueError: -1
VarIndex(names, name) == IF Contains(names, name) THEN IndexOf(names, name) ELSE -1

\* p['data'][idx] if idx > -1 else []
VarVector(doc, idx) == IF idx > -1 THEN At(doc.data, idx) ELSE <<>>

NormLonNoWrap(x) == x

\* p['geolocation']['coordinates'][0] % 360
NormLon(x) == x % 360

\* Lines 27-50.
Extract ==
  /\ pc = "extract"
  /\ lat' = At(p.geolocation.coordinates, 1)
  /\ lon' = NormLon(At(p.geolocation.coordinates, 0))
  /\ level' = p.level
  /\ theta_idx' = VarIndex(At(p.data_info, 0), "THETA")
  /\ salt_idx' = VarIndex(At(p.data_info, 0), "SALT")
  /\ theta' = VarVector(p, theta_idx')
  /\ salt' = VarVector(p, salt_idx')
  /\ pc' = "resolve"
  /\ UNCHANGED <<db, exc, logmessage, loglen, p, m, lonidx, latidx, levelidx,
                 theta_timeseries, salt_timeseries, f, printed>>

OnGrid == Contains(longitudes, lon) /\ Contains(latitudes, lat) /\ Contains(levels, -1 * level)

\* Lines 53-55 when the three values are on the axes.
Resolve ==
  /\ pc = "resolve"
  /\ OnGrid
  /\ lonidx' = IndexOf(longitudes, lon)
  /\ latidx' = IndexOf(latitudes, lat)
  /\ levelidx' = IndexOf(levels, -1 * level)
  /\ pc' = "sample"
  /\ UNCHANGED <<db, exc, logmessage, loglen, p, m, lat, lon, level, theta_idx, salt_idx,
                 theta, salt, theta_timeseries, salt_timeseries, f, printed>>

\* Lines 53-55 when list.index raises ValueError: the assignments before the
\* failing lookup have happened, nothing catches the exception.
ResolveNotFound ==
  /\ pc = "resolve"
  /\ ~OnGrid
  /\ lonidx' = IF Contains(longitudes, lon) THEN IndexOf(longitudes, lon) ELSE lonidx
  /\ latidx' = IF Contains(longitudes, lon) /\ Contains(latitudes, lat)
                 THEN IndexOf(latitudes, lat) ELSE latidx
  /\ pc' = "terminated"
  /\ exc' = "CoordinateNotFound"
  /\ UNCHANGED <<db, logmessage, loglen, p, m, lat, lon, level, theta_idx, salt_idx,
                 theta, salt, levelidx, theta_timeseries, salt_timeseries, f, printed>>

ConcatLatestFirst(first, second, k, j, i) ==
  PointSeries(second, k, j, i) \o PointSeries(first, k, j, i)

\* list(first[var][:,k,j,i].values) + list(second[var][:,k,j,i].values)
Concat(first, second, k, j, i) ==
  PointSeries(first, k, j, i) \o PointSeries(second, k, j, i)

\* Lines 57-61.
Sample ==
  /\ pc = "sample"
  /\ theta_timeseries' = Concat(theta13, theta14, levelidx, latidx, lonidx)
  /\ salt_timeseries' = Concat(salt13, salt14, levelidx, latidx, lonidx)
  /\ pc' = "theta"
  /\ UNCHANGED <<db, exc, logmessage, loglen, p, m, lat, lon, level, theta_idx, salt_idx,
                 theta, salt, lonidx, latidx, levelidx, f, printed>>

\* The two lines a failed comparison appends.
Finding(text, doc) == <<Line(text, <<>>), Line("Profile ID: ", doc._id)>>

\* Lines 63-65.
CompareTheta ==
  /\ pc = "theta"
  /\ Broadcastable(theta, theta_timeseries)
  /\ logmessage' = IF ~AllClose(theta, theta_timeseries)
                     THEN logmessage \o Finding("Theta mismatch", p)
                     ELSE logmessage
  /\ pc' = "salt"
  /\ UNCHANGED <<db, exc, loglen, p, m, lat, lon, level, theta_idx, salt_idx, theta, salt,
                 lonidx, latidx, levelidx, theta_timeseries, salt_timeseries, f, printed>>

\* Line 63 when the shapes cannot be broadcast: numpy raises ValueError.
CompareThetaRaises ==
  /\ pc = "theta"
  /\ ~Broadcastable(theta, theta_timeseries)
  /\ pc' = "terminated"
  /\ exc' = "ShapeMismatch"
  /\ UNCHANGED <<db, logmessage, loglen, p, m, lat, lon, level, theta_idx, salt_idx, theta,
                 salt, lonidx, latidx, levelidx, theta_timeseries, salt_timeseries, f,
                 printed>>

\* Lines 66-68.
CompareSalt ==
  /\ pc = "salt"
  /\ Broadcastable(salt, salt_timeseries)
  /\ logmessage' = IF ~AllClose(salt, salt_timeseries)
                     THEN logmessage \o Finding("Salt mismatch", p)
                     ELSE logmessage
  /\ f' = 0
  /\ pc' = "static"
  /\ UNCHANGED <<db, exc, loglen, p, m, lat, lon, level, theta_idx, salt_idx, theta, salt,
                 lonidx, latidx, levelidx, theta_timeseries, salt_timeseries, printed>>

\* Line 66 when the shapes cannot be broadcast.
CompareSaltRaises ==
  /\ pc = "salt"
  /\ ~Broadcastable(salt, salt_timeseries)
  /\ pc' = "terminated"
  /\ exc' = "ShapeMismatch"
  /\ UNCHANGED <<db, logmessage, loglen, p, m, lat, lon, level, theta_idx, salt_idx, theta,
                 salt, lonidx, latidx, levelidx, theta_timeseries, salt_timeseries, f,
                 printed>>

\* The nine comparisons of lines 73-108 for one file, in source order:
\* grid value, stored value, message.
StaticChecks(fl, pdoc, mdoc, k, j, i) ==
  << [ref |-> At(At(fl.static.rA, j), i), obs |-> mdoc.cell_area,
      text |-> "Cell area mismatch"],
     [ref |-> At(At(fl.static.Depth, j), i), obs |-> mdoc.ocean_depth,
      text |-> "ocean_depth mismatch"],
     [ref |-> At(At(fl.static.maskInC, j), i), obs |-> mdoc.interior_2d_mask,
      text |-> "interior_2d_mask mismatch"],
     [ref |-> At(At(fl.static.rSurfC, j), i), obs |-> mdoc.depth_r0_to_ref_surface,
      text |-> "depth_r0_to_ref_surface mismatch"],
     [ref |-> At(At(fl.static.rLowC, j), i), obs |-> mdoc.depth_r0_to_bottom,
      text |-> "depth_r0_to_bottom mismatch"],
     [ref |-> At(fl.static.drF, k), obs |-> pdoc.cell_z_size,
      text |-> "cell_z_size mismatch"],
     [ref |-> At(At(At(fl.static.hFacC, k), j), i), obs |-> pdoc.cell_vertical_fraction,
      text |-> "cell_vertical_fraction mismatch"],
     [ref |-> At(At(At(fl.static.maskC, k), j), i),
      obs |-> pdoc.sea_binary_mask_at_t_locaiton,
      text |-> "sea_binary_mask_at_t_locaiton mismatch"],
     [ref |-> At(fl.static.rhoRef, k), obs |-> pdoc.reference_density_profile,
      text |-> "reference_density_profile mismatch"] >>

StaticFindingsFirstOnly(checks, doc) ==
  IF \E c \in 1..Len(checks) : Differs(checks[c].ref, checks[c].obs)
    THEN Finding(checks[CHOOSE c \in 1..Len(checks) :
                          /\ Differs(checks[c].ref, checks[c].obs)
                          /\ \A d \in 1..(c - 1) : ~Differs(checks[d].ref, checks[d].obs)].text,
                 doc)
    ELSE <<>>

\* The lines those comparisons append, in order.
RECURSIVE StaticFindings(_, _)
StaticFindings(checks, doc) ==
  IF checks = <<>> THEN <<>>
  ELSE (IF Differs(Head(checks).ref, Head(checks).obs)
          THEN Finding(Head(checks).text, doc) ELSE <<>>)
       \o StaticFindings(Tail(checks), doc)

\* One iteration of the loop of line 70.
CheckFile ==
  /\ pc = "static"
  /\ f < Len(Files)
  /\ logmessage' = logmessage \o
       StaticFindings(StaticChecks(At(Files, f), p, m, levelidx, latidx, lonidx), p)
  /\ f' = f + 1
  /\ pc' = IF f + 1 = Len(Files) THEN "report" ELSE "static"
  /\ UNCHANGED <<db, exc, loglen, p, m, lat, lon, level, theta_idx, salt_idx, theta, salt,
                 lonidx, latidx, levelidx, theta_timeseries, salt_timeseries, printed>>

ShouldPrintAlways(msg, n) == TRUE

\* len(logmessage) > loglen
ShouldPrint(msg, n) == Len(msg) > n

\* Lines 110-111, then back to the top of the loop.
Report ==
  /\ pc = "report"
  /\ printed' = IF ShouldPrint(logmessage, loglen) THEN logmessage ELSE <<>>
  /\ pc' = "select"
  /\ UNCHANGED <<db, exc, logmessage, loglen, p, m, lat, lon, level, theta_idx, salt_idx,
                 theta, salt, lonidx, latidx, levelidx, theta_timeseries, salt_timeseries, f>>

Next ==
  \/ Select
  \/ SelectNoMetadata
  \/ SelectUnavailable
  \/ Extract
  \/ Resolve
  \/ ResolveNotFound
  \/ Sample
  \/ CompareTheta
  \/ CompareThetaRaises
  \/ CompareSalt
  \/ CompareSaltRaises
  \/ CheckFile
  \/ Report

Spec == Init /\ [][Next]_vars

\* =================================================================== claims
ThetaCompared == pc \in {"salt", "static", "report"}
SaltCompared == pc \in {"static", "report"}

\* The pass has run lines 110-111 and the loop is back at its top.
PassReported == pc = "select" /\ loglen > 0

CountLines(msg, text) == Cardinality({q \in 1..Len(msg) : msg[q][1] = text})

HasFinding(text) == CountLines(logmessage, text) > 0

Reverse(s) == [q \in 1..Len(s) |-> s[Len(s) + 1 - q]]

\* The comparisons of the current pass, by category, for file position fi.
ChecksOf(fi) == StaticChecks(Files[fi], p, m, levelidx, latidx, lonidx)

NumStatic == 9

StaticTexts == {ChecksOf(1)[c].text : c \in 1..NumStatic}

\* Failed comparisons of the finished pass: per static category and in all.
FailedStatic(c) == Cardinality({fi \in 1..Len(Files) : Differs(ChecksOf(fi)[c].ref, ChecksOf(fi)[c].obs)})

FailedTheta == IF AllClose(theta, theta_timeseries) THEN 0 ELSE 1

FailedSalt == IF AllClose(salt, salt_timeseries) THEN 0 ELSE 1

FailedTotal ==
  FailedTheta + FailedSalt
  + Cardinality({x \in (1..Len(Files)) \X (1..NumStatic) :
                   Differs(ChecksOf(x[1])[x[2]].ref, ChecksOf(x[1])[x[2]].obs)})

\* ---------------------------------------------------------------------- C1
\* C1: a profile whose normalized longitude, latitude or negated level is
\* not on the reference axes (CoordinateNotFound) does not end the loop.
C1_CoordinateNotFoundConfined == exc = "CoordinateNotFound" => pc # "terminated"

\* ---------------------------------------------------------------------- C2
\* C2: comparing series of different lengths never raises; it appends a
\* mismatch Finding and the pass continues.
C2_LengthMismatchIsFinding ==
  /\ exc # "ShapeMismatch"
  /\ ThetaCompared /\ Len(theta) # Len(theta_timeseries) => HasFinding("Theta mismatch")
  /\ SaltCompared /\ Len(salt) # Len(salt_timeseries) => HasFinding("Salt mismatch")

C4_FindingPerDifferingFile ==
  pc \in {"static", "report"} =>
    \A c \in 1..NumStatic :
      CountLines(logmessage, ChecksOf(1)[c].text)
        = Cardinality({fi \in 1..f : ChecksOf(fi)[c].ref # ChecksOf(fi)[c].obs})

\* ocean_depth equals Depth in the 2013 theta file and differs in the 2014
\* one: one Finding, appended by the second iteration.
C4_Witness ==
  /\ pc = "static" /\ f = 2
  /\ m.ocean_depth = At(At(theta13.static.Depth, latidx), lonidx)
  /\ m.ocean_depth # At(At(theta14.static.Depth, latidx), lonidx)
  /\ CountLines(logmessage, "ocean_depth mismatch") = 1

\* ---------------------------------------------------------------------- C5
\* C5: when the wrapped longitude, the latitude and the negated level are on
\* the axes, resolution succeeds and the indices lead back to those values.
Resolved == pc \in {"sample", "theta", "salt", "static", "report"}

C5_ResolveRoundTrip ==
  LET wrapped == p.geolocation.coordinates[1] % 360
      onAxes == /\ \E i \in 1..Len(longitudes) : longitudes[i] = wrapped
                /\ \E j \in 1..Len(latitudes) : latitudes[j] = p.geolocation.coordinates[2]
                /\ \E k \in 1..Len(levels) : levels[k] = 0 - p.level
  IN /\ Resolved =>
          /\ lonidx \in 0..(Len(longitudes) - 1) /\ longitudes[lonidx + 1] = wrapped
          /\ latidx \in 0..(Len(latitudes) - 1)
          /\ latitudes[latidx + 1] = p.geolocation.coordinates[2]
          /\ levelidx \in 0..(Len(levels) - 1) /\ levels[levelidx + 1] = 0 - p.level
     /\ exc = "CoordinateNotFound" => ~onAxes

\* A longitude in the [-180,180) convention resolved to the axis value 240.
C5_Witness ==
  /\ pc = "sample"
  /\ p.geolocation.coordinates[1] = -120
  /\ longitudes[lonidx + 1] = 240
  /\ levels[levelidx + 1] = -15

\* ---------------------------------------------------------------------- C6
\* C6: the reference timeseries is the 2013 file's values at the cell
\* followed by the 2014 file's, element for element.
Sampled == pc \in {"theta", "salt", "static", "report"}

C6_ChronologicalConcat ==
  Sampled =>
    LET cell(fl, t) == fl.var[t][levelidx + 1][latidx + 1][lonidx + 1]
    IN /\ Len(theta_timeseries) = Len(theta13.var) + Len(theta14.var)
       /\ \A t \in 1..Len(theta13.var) : theta_timeseries[t] = cell(theta13, t)
       /\ \A t \in 1..Len(theta14.var) :
            theta_timeseries[Len(theta13.var) + t] = cell(theta14, t)
       /\ Len(salt_timeseries) = Len(salt13.var) + Len(salt14.var)
       /\ \A t \in 1..Len(salt13.var) : salt_timeseries[t] = cell(salt13, t)
       /\ \A t \in 1..Len(salt14.var) :
            salt_timeseries[Len(salt13.var) + t] = cell(salt14, t)

C6_Witness ==
  /\ pc = "theta"
  /\ Len(theta_timeseries) = 3
  /\ theta_timeseries[1] # theta_timeseries[3]
  /\ theta_timeseries[3] = theta14.var[1][levelidx + 1][latidx + 1][lonidx + 1]

\* ---------------------------------------------------------------------- C7
SameVector(a, b) == Len(a) = Len(b) /\ \A q \in 1..Len(a) : a[q] = b[q]

FarSomewhere(a, b) == Len(a) = Len(b) /\ \E q \in 1..Len(a) : ~IsClose(a[q], b[q])

Palindromic(s) == \A q \in 1..Len(s) : s[q] = s[Len(s) + 1 - q]

\* C7 as stated: equal vectors (NaN at the same positions) give no Finding,
\* an element beyond tolerance gives one, and so does the reversal of any
\* non-palindromic reference.
C7_ReversalAlwaysFound ==
  /\ ThetaCompared =>
       /\ SameVector(theta, theta_timeseries) => ~HasFinding("Theta mismatch")
       /\ FarSomewhere(theta, theta_timeseries) => HasFinding("Theta mismatch")
       /\ theta = Reverse(theta_timeseries) /\ ~Palindromic(theta_timeseries)
            => HasFinding("Theta mismatch")
  /\ SaltCompared =>
       /\ SameVector(salt, salt_timeseries) => ~HasFinding("Salt mismatch")
       /\ FarSomewhere(salt, salt_timeseries) => HasFinding("Salt mismatch")
       /\ salt = Reverse(salt_timeseries) /\ ~Palindromic(salt_timeseries)
            => HasFinding("Salt mismatch")

\* C7 amended: equal vectors (NaN at the same positions) give no Finding, an
\* element beyond tolerance (or NaN facing a number) gives one, and the
\* reversal of the reference gives one when some element is beyond tolerance
\* of the element at the mirrored position.
C7_PositionalNaNAware ==
  /\ ThetaCompared =>
       /\ SameVector(theta, theta_timeseries) => ~HasFinding("Theta mismatch")
       /\ FarSomewhere(theta, theta_timeseries) => HasFinding("Theta mismatch")
       /\ theta = Reverse(theta_timeseries)
            => (HasFinding("Theta mismatch")
                  <=> \E q \in 1..Len(theta) : ~IsClose(theta[q], theta[Len(theta) + 1 - q]))
  /\ SaltCompared =>
       /\ SameVector(salt, salt_timeseries) => ~HasFinding("Salt mismatch")
       /\ FarSomewhere(salt, salt_timeseries) => HasFinding("Salt mismatch")
       /\ salt = Reverse(salt_timeseries)
            => (HasFinding("Salt mismatch")
                  <=> \E q \in 1..Len(salt) : ~IsClose(salt[q], salt[Len(salt) + 1 - q]))

\* A stored vector with NaN where the reference has NaN passed.
C7_Witness ==
  /\ pc = "salt"
  /\ SameVector(theta, theta_timeseries)
  /\ \E q \in 1..Len(theta) : theta[q] = NaN
  /\ \E q \in 1..Len(theta) : theta[q] # NaN
  /\ ~HasFinding("Theta mismatch")

\* ---------------------------------------------------------------------- C8
\* C8: the floating static fields are compared under a tolerance: a stored
\* value within tolerance of the grid value in every file gives no Finding.
FloatChecks == {1, 2, 4, 5, 6, 7, 9}

C8_FloatsUnderTolerance ==
  pc = "report" =>
    \A c \in FloatChecks :
      (\A fi \in 1..Len(Files) : IsClose(ChecksOf(fi)[c].obs, ChecksOf(fi)[c].ref))
        => CountLines(logmessage, ChecksOf(1)[c].text) = 0

\* ---------------------------------------------------------------------- C9
\* C9: the loop never ends because of what a sampled profile or its
\* metadata lookup holds.
ContentExceptions == {"IndexError", "CoordinateNotFound", "ShapeMismatch"}

C9_ContentNeverEndsLoop == pc = "terminated" => exc \notin ContentExceptions

\* --------------------------------------------------------------------- C10
\* C10: the buffer starts afresh in every pass: during a pass it begins with
\* that pass's header, every profile line in it names that pass's profile,
\* and a finished pass without Findings has printed nothing.
InPass == pc \in {"extract", "resolve", "sample", "theta", "salt", "static", "report"}

C10_ReportPerPass ==
  /\ InPass =>
       /\ loglen = 1
       /\ Len(logmessage) >= 1 /\ logmessage[1] = Header(p)
       /\ \A q \in 2..Len(logmessage) :
            /\ logmessage[q][1] # "Checking profile id "
            /\ logmessage[q][1] = "Profile ID: " => logmessage[q][2] = p._id
  /\ PassReported /\ FailedTotal = 0 => printed = <<>>
  /\ PassReported /\ FailedTotal > 0 => Len(printed) = 1 + 2 * FailedTotal

\* A pass has just begun after a pass that recorded a Theta mismatch (its
\* vectors are still bound), and the buffer holds the new header only.
C10_Witness ==
  /\ pc = "extract"
  /\ f = Len(Files)
  /\ ~AllClose(theta, theta_timeseries)
  /\ logmessage = <<Header(p)>>
  /\ p._id # <<4>> \o theta

====
